---- MODULE Spec2Model ----
(***************************************************************************)
(* A model of the Connect-Four engine: Board (board.rs), Game (game.rs),   *)
(* Player (player.rs), GameOutcome (outcome.rs) and the move-log replay of *)
(* serde_support.rs.  Every operator keeps the name of the function it     *)
(* models and is computed the way the function computes it (loops become   *)
(* RECURSIVE scans in the same direction).                                 *)
(***************************************************************************)
EXTENDS Integers, Sequences, FiniteSets, TLC

\* Option::None, for cells (Option<Player>) and for Option<GameOutcome>.
None == "None"

\* enum Player
Red == "Red"
Yellow == "Yellow"
Player == {Red, Yellow}

\* enum GameOutcome
RedWin == "RedWin"
YellowWin == "YellowWin"
Draw == "Draw"
GameOutcome == {RedWin, YellowWin, Draw}

STANDARD_COLS == 7
STANDARD_ROWS == 6

-----------------------------------------------------------------------------
(* Bounds of the model.                                                    *)

\* how many successful unmake_move calls one behaviour holds
MaxUnmakes == 3
\* how many set_piece calls one behaviour of the editing specification holds
MaxEdits == 2
\* how many occupied cells a board of the board specification holds
MaxPieces == 4

\* board sizes (width, height) of the games started with Game::new
Dims == {<<4, 2>>, <<2, 4>>}
\* board sizes of the games that are also edited with Game::set_piece
EditDims == {<<1, 4>>, <<2, 2>>, <<3, 1>>}
\* board sizes of the bare boards
BoardDims == {<<5, 1>>, <<1, 5>>, <<4, 4>>}

\* move logs replayed on the standard 7x6 board (41 plies each, one cell left)
Logs ==
  { <<5, 1, 3, 1, 3, 0, 0, 5, 2, 4, 6, 3, 1, 4, 1, 3, 2, 5, 0, 6, 2,
      3, 4, 2, 1, 5, 4, 6, 2, 2, 6, 0, 6, 4, 6, 4, 5, 1, 5, 0, 0>>,
    <<5, 1, 3, 4, 0, 2, 2, 2, 3, 2, 6, 3, 0, 0, 3, 6, 2, 2, 3, 0, 4,
      3, 0, 4, 0, 5, 5, 6, 5, 5, 5, 4, 4, 1, 4, 6, 1, 1, 6, 1, 6>>,
    <<0, 4, 5, 6, 0, 3, 4, 6, 1, 1, 2, 5, 2, 5, 0, 6, 4, 5, 1, 3, 4,
      1, 1, 3, 3, 0, 3, 4, 4, 0, 5, 1, 6, 5, 6, 6, 2, 0, 3, 2, 2>> }

-----------------------------------------------------------------------------
(* player.rs                                                               *)

opposite(p) == IF p = Red THEN Yellow ELSE Red

-----------------------------------------------------------------------------
(* Position and Move: (col, row) pairs                                     *)

Position_new(col, row) == [col |-> col, row |-> row]

Move_new(col, row) == [col |-> col, row |-> row]

\* Position::is_valid(width, height)
is_valid(pos, width, height) == pos.col < width /\ pos.row < height

\* Position::to_index(width)
to_index(pos, width) == pos.row * width + pos.col

-----------------------------------------------------------------------------
(* board.rs: a board is [cells, width, height], cells indexed from 0       *)

Board_new(width, height) ==
  [cells |-> [i \in 0 .. (width * height - 1) |-> None],
   width |-> width, height |-> height]

index(b, col, row) == row * b.width + col

get_piece(b, pos) ==
  IF is_valid(pos, b.width, b.height)
  THEN b.cells[to_index(pos, b.width)]
  ELSE None

set_piece(b, pos, player) ==
  IF is_valid(pos, b.width, b.height)
  THEN [b EXCEPT !.cells[to_index(pos, b.width)] = player]
  ELSE b

clear(b) == [b EXCEPT !.cells = [i \in 0 .. (b.width * b.height - 1) |-> None]]

\* is_board_full that is satisfied by one full column
is_board_full_any_column(b) ==
  \E col \in 0 .. (b.width - 1) : b.cells[index(b, col, b.height - 1)] # None

is_board_full(b) ==
  \A col \in 0 .. (b.width - 1) : b.cells[index(b, col, b.height - 1)] # None

\* the loop of column_height: rows n-1, n-2, .. 0, the first occupied one decides
RECURSIVE column_height_scan(_, _, _)
column_height_scan(b, col, n) ==
  IF n = 0 THEN 0
  ELSE IF b.cells[index(b, col, n - 1)] # None THEN n
  ELSE column_height_scan(b, col, n - 1)

column_height(b, col) ==
  IF col >= b.width THEN 0 ELSE column_height_scan(b, col, b.height)

\* is_column_full that reports a column out of range as open
is_column_full_open_out_of_range(b, col) ==
  IF col >= b.width THEN FALSE
  ELSE b.cells[index(b, col, b.height - 1)] # None

is_column_full(b, col) ==
  IF col >= b.width THEN TRUE
  ELSE b.cells[index(b, col, b.height - 1)] # None

\* the loop of drop_piece run from the top row down: the highest empty cell is filled
drop_scan_from_top(b, col, player, row) ==
  [board |-> [b EXCEPT !.cells[index(b, col, b.height - 1)] = player],
   some |-> TRUE, row |-> b.height - 1]

\* the loop of drop_piece replaced by a lookup of column_height: the piece
\* is put on top of the highest piece of the column
drop_scan_at_column_height(b, col, player, row) ==
  [board |-> [b EXCEPT !.cells[index(b, col, column_height(b, col))] = player],
   some |-> TRUE, row |-> column_height(b, col)]

\* the loop of drop_piece: rows row, row+1, .. height-1, the first empty one is filled
RECURSIVE drop_scan(_, _, _, _)
drop_scan(b, col, player, row) ==
  IF row >= b.height THEN [board |-> b, some |-> FALSE, row |-> 0]
  ELSE IF b.cells[index(b, col, row)] = None
  THEN [board |-> [b EXCEPT !.cells[index(b, col, row)] = player],
        some |-> TRUE, row |-> row]
  ELSE drop_scan(b, col, player, row + 1)

\* drop_piece that does not test is_column_full before it scans the column
drop_piece_without_full_test(b, col, player) ==
  IF col >= b.width
  THEN [board |-> b, some |-> FALSE, row |-> 0]
  ELSE drop_scan(b, col, player, 0)

\* Option<usize> as [some, row]; board is the board after the call
drop_piece(b, col, player) ==
  IF col >= b.width \/ is_column_full(b, col)
  THEN [board |-> b, some |-> FALSE, row |-> 0]
  ELSE drop_scan(b, col, player, 0)

\* the while loop of count_in_direction, entered at (col, row)
RECURSIVE count_from(_, _, _, _, _, _)
count_from(b, player, col, row, dcol, drow) ==
  IF col >= 0 /\ col < b.width /\ row >= 0 /\ row < b.height
  THEN IF b.cells[index(b, col, row)] = player
       THEN 1 + count_from(b, player, col + dcol, row + drow, dcol, drow)
       ELSE 0
  ELSE 0

count_in_direction(b, pos, player, dcol, drow) ==
  count_from(b, player, pos.col + dcol, pos.row + drow, dcol, drow)

\* check_direction that counts in the positive direction only
check_direction_one_sided(b, pos, player, dcol, drow) ==
  1 + count_in_direction(b, pos, player, dcol, drow) >= 4

check_direction(b, pos, player, dcol, drow) ==
  1 + count_in_direction(b, pos, player, dcol, drow)
    + count_in_direction(b, pos, player, -dcol, -drow) >= 4

\* check_win that leaves out the falling diagonal
check_win_without_falling_diagonal(b, pos, player) ==
  \/ check_direction(b, pos, player, 1, 0)
  \/ check_direction(b, pos, player, 0, 1)
  \/ check_direction(b, pos, player, 1, 1)

check_win(b, pos, player) ==
  \/ check_direction(b, pos, player, 1, 0)
  \/ check_direction(b, pos, player, 0, 1)
  \/ check_direction(b, pos, player, 1, 1)
  \/ check_direction(b, pos, player, 1, -1)

-----------------------------------------------------------------------------
(* game.rs: a game is [board, current_player, move_history, is_over,       *)
(* outcome]; a call returns [game, ret]: the game after it and its result  *)

Game_new(width, height) ==
  [board |-> Board_new(width, height),
   current_player |-> Red,
   move_history |-> <<>>,
   is_over |-> FALSE,
   outcome |-> None]

Game_standard == Game_new(STANDARD_COLS, STANDARD_ROWS)

\* the loop of legal_moves with every move at row 0
RECURSIVE legal_moves_from_row0(_, _)
legal_moves_from_row0(g, col) ==
  IF col >= g.board.width THEN <<>>
  ELSE (IF ~is_column_full(g.board, col)
        THEN <<Move_new(col, 0)>>
        ELSE <<>>) \o legal_moves_from_row0(g, col + 1)

\* the loop of legal_moves over the columns col, col+1, .. width-1
RECURSIVE legal_moves_from(_, _)
legal_moves_from(g, col) ==
  IF col >= g.board.width THEN <<>>
  ELSE (IF ~is_column_full(g.board, col)
        THEN <<Move_new(col, column_height(g.board, col))>>
        ELSE <<>>) \o legal_moves_from(g, col + 1)

legal_moves(g) == IF g.is_over THEN <<>> ELSE legal_moves_from(g, 0)

\* is_legal_move that accepts any row of an open column
is_legal_move_any_row(g, move_) ==
  IF g.is_over THEN FALSE
  ELSE IF move_.col >= g.board.width THEN FALSE
  ELSE ~is_column_full(g.board, move_.col)

\* is_legal_move without the is_over test
is_legal_move_ignores_over(g, move_) ==
  IF move_.col >= g.board.width THEN FALSE
  ELSE /\ ~is_column_full(g.board, move_.col)
       /\ move_.row = column_height(g.board, move_.col)

is_legal_move(g, move_) ==
  IF g.is_over THEN FALSE
  ELSE IF move_.col >= g.board.width THEN FALSE
  ELSE /\ ~is_column_full(g.board, move_.col)
       /\ move_.row = column_height(g.board, move_.col)

\* make_move that switches the player before it validates the move
make_move_flips_before_check(g, move_) ==
  IF ~is_legal_move(g, move_)
  THEN [game |-> [g EXCEPT !.current_player = opposite(g.current_player)],
        ret |-> FALSE]
  ELSE
    LET d == drop_piece(g.board, move_.col, g.current_player) IN
    IF ~d.some THEN [game |-> [g EXCEPT !.board = d.board], ret |-> FALSE]
    ELSE
      LET pos == Position_new(move_.col, d.row)
          won == check_win(d.board, pos, g.current_player)
          full == is_board_full(d.board)
      IN [game |->
            [board |-> d.board,
             current_player |-> opposite(g.current_player),
             move_history |-> Append(g.move_history, move_),
             is_over |-> IF won \/ full THEN TRUE ELSE g.is_over,
             outcome |-> IF won
                         THEN (IF g.current_player = Red THEN RedWin ELSE YellowWin)
                         ELSE IF full THEN Draw ELSE g.outcome],
          ret |-> TRUE]

\* make_move that switches the player only while the game goes on
make_move_no_terminal_flip(g, move_) ==
  IF ~is_legal_move(g, move_) THEN [game |-> g, ret |-> FALSE]
  ELSE
    LET d == drop_piece(g.board, move_.col, g.current_player) IN
    IF ~d.some THEN [game |-> [g EXCEPT !.board = d.board], ret |-> FALSE]
    ELSE
      LET pos == Position_new(move_.col, d.row)
          won == check_win(d.board, pos, g.current_player)
          full == is_board_full(d.board)
      IN [game |->
            [board |-> d.board,
             current_player |-> IF won \/ full THEN g.current_player
                                ELSE opposite(g.current_player),
             move_history |-> Append(g.move_history, move_),
             is_over |-> IF won \/ full THEN TRUE ELSE g.is_over,
             outcome |-> IF won
                         THEN (IF g.current_player = Red THEN RedWin ELSE YellowWin)
                         ELSE IF full THEN Draw ELSE g.outcome],
          ret |-> TRUE]

\* make_move without the else-if branch that declares the draw
make_move_without_draw(g, move_) ==
  IF ~is_legal_move(g, move_) THEN [game |-> g, ret |-> FALSE]
  ELSE
    LET d == drop_piece(g.board, move_.col, g.current_player) IN
    IF ~d.some THEN [game |-> [g EXCEPT !.board = d.board], ret |-> FALSE]
    ELSE
      LET pos == Position_new(move_.col, d.row)
          won == check_win(d.board, pos, g.current_player)
      IN [game |->
            [board |-> d.board,
             current_player |-> opposite(g.current_player),
             move_history |-> Append(g.move_history, move_),
             is_over |-> IF won THEN TRUE ELSE g.is_over,
             outcome |-> IF won
                         THEN (IF g.current_player = Red THEN RedWin ELSE YellowWin)
                         ELSE g.outcome],
          ret |-> TRUE]

make_move(g, move_) ==
  IF ~is_legal_move(g, move_) THEN [game |-> g, ret |-> FALSE]
  ELSE
    LET d == drop_piece(g.board, move_.col, g.current_player) IN
    IF ~d.some THEN [game |-> [g EXCEPT !.board = d.board], ret |-> FALSE]
    ELSE
      LET pos == Position_new(move_.col, d.row)
          won == check_win(d.board, pos, g.current_player)
          full == is_board_full(d.board)
      IN [game |->
            [board |-> d.board,
             current_player |-> opposite(g.current_player),
             move_history |-> Append(g.move_history, move_),
             is_over |-> IF won \/ full THEN TRUE ELSE g.is_over,
             outcome |-> IF won
                         THEN (IF g.current_player = Red THEN RedWin ELSE YellowWin)
                         ELSE IF full THEN Draw ELSE g.outcome],
          ret |-> TRUE]

\* unmake_move that pops the move but leaves its piece on the board
unmake_move_keeps_piece(g) ==
  IF Len(g.move_history) = 0 THEN [game |-> g, ret |-> FALSE]
  ELSE [game |->
          [board |-> g.board,
           current_player |-> opposite(g.current_player),
           move_history |-> SubSeq(g.move_history, 1, Len(g.move_history) - 1),
           is_over |-> FALSE,
           outcome |-> None],
        ret |-> TRUE]

\* unmake_move that resets is_over but forgets to reset the outcome
unmake_move_keeps_outcome(g) ==
  IF Len(g.move_history) = 0 THEN [game |-> g, ret |-> FALSE]
  ELSE
    LET last_move == g.move_history[Len(g.move_history)]
        pos == Position_new(last_move.col, last_move.row)
    IN [game |->
          [board |-> set_piece(g.board, pos, None),
           current_player |-> opposite(g.current_player),
           move_history |-> SubSeq(g.move_history, 1, Len(g.move_history) - 1),
           is_over |-> FALSE,
           outcome |-> g.outcome],
        ret |-> TRUE]

\* unmake_move that resets the game state and passes the turn outside the
\* if-let: also when there was no move to pop
unmake_move_resets_when_empty(g) ==
  IF Len(g.move_history) = 0
  THEN [game |-> [g EXCEPT !.is_over = FALSE, !.outcome = None,
                           !.current_player = opposite(g.current_player)],
        ret |-> FALSE]
  ELSE
    LET last_move == g.move_history[Len(g.move_history)]
        pos == Position_new(last_move.col, last_move.row)
    IN [game |->
          [board |-> set_piece(g.board, pos, None),
           current_player |-> opposite(g.current_player),
           move_history |-> SubSeq(g.move_history, 1, Len(g.move_history) - 1),
           is_over |-> FALSE,
           outcome |-> None],
        ret |-> TRUE]

\* unmake_move that resets the outcome but leaves is_over as it was
unmake_move_keeps_is_over(g) ==
  IF Len(g.move_history) = 0 THEN [game |-> g, ret |-> FALSE]
  ELSE
    LET last_move == g.move_history[Len(g.move_history)]
        pos == Position_new(last_move.col, last_move.row)
    IN [game |->
          [board |-> set_piece(g.board, pos, None),
           current_player |-> opposite(g.current_player),
           move_history |-> SubSeq(g.move_history, 1, Len(g.move_history) - 1),
           is_over |-> g.is_over,
           outcome |-> None],
        ret |-> TRUE]

\* unmake_move that does not pass the turn back
unmake_move_keeps_turn(g) ==
  IF Len(g.move_history) = 0 THEN [game |-> g, ret |-> FALSE]
  ELSE
    LET last_move == g.move_history[Len(g.move_history)]
        pos == Position_new(last_move.col, last_move.row)
    IN [game |->
          [board |-> set_piece(g.board, pos, None),
           current_player |-> g.current_player,
           move_history |-> SubSeq(g.move_history, 1, Len(g.move_history) - 1),
           is_over |-> FALSE,
           outcome |-> None],
        ret |-> TRUE]

unmake_move(g) ==
  IF Len(g.move_history) = 0 THEN [game |-> g, ret |-> FALSE]
  ELSE
    LET last_move == g.move_history[Len(g.move_history)]
        pos == Position_new(last_move.col, last_move.row)
    IN [game |->
          [board |-> set_piece(g.board, pos, None),
           current_player |-> opposite(g.current_player),
           move_history |-> SubSeq(g.move_history, 1, Len(g.move_history) - 1),
           is_over |-> FALSE,
           outcome |-> None],
        ret |-> TRUE]

\* Game::set_piece that also records the edit as a move of the history
Game_set_piece_recording(g, pos, player) ==
  [g EXCEPT !.board = set_piece(g.board, pos, player),
            !.move_history = Append(g.move_history, Move_new(pos.col, pos.row))]

Game_set_piece(g, pos, player) == [g EXCEPT !.board = set_piece(g.board, pos, player)]

-----------------------------------------------------------------------------
(* serde_support.rs: the replay loop of Deserialize for Game, over the     *)
(* parsed column numbers; [ok, game], ok = FALSE for Err                   *)

RECURSIVE replay(_, _, _)
replay(g, cols, i) ==
  IF i > Len(cols) THEN [ok |-> TRUE, game |-> g]
  ELSE
    LET col == cols[i]
        row == column_height(g.board, col)
        r == make_move(g, Move_new(col, row))
    IN IF ~r.ret THEN [ok |-> FALSE, game |-> r.game]
       ELSE replay(r.game, cols, i + 1)

-----------------------------------------------------------------------------
(* The state: the fields of one Game, and what the driver has observed     *)

VARIABLES
  board,           \* Game.board
  current_player,  \* Game.current_player
  move_history,    \* Game.move_history
  is_over,         \* Game.is_over
  outcome,         \* Game.outcome
  makes,           \* successful make_move calls since Game::new
  unmakes,         \* successful unmake_move calls since Game::new
  edits,           \* set_piece calls since Game::new
  op,              \* the last operation called
  ret,             \* what it returned
  cloned           \* the other Game of the driver, made by clone()

\* no clone() yet
NoClone == [some |-> FALSE]

gameVars == <<board, current_player, move_history, is_over, outcome>>
vars == <<board, current_player, move_history, is_over, outcome,
          makes, unmakes, edits, op, ret, cloned>>

\* the Game the variables hold
Game ==
  [board |-> board, current_player |-> current_player,
   move_history |-> move_history, is_over |-> is_over, outcome |-> outcome]

SetGame(g) ==
  /\ board' = g.board
  /\ current_player' = g.current_player
  /\ move_history' = g.move_history
  /\ is_over' = g.is_over
  /\ outcome' = g.outcome

\* the moves a driver may pass: every cell, and one column and one row out of range
MoveInputs == {Move_new(c, r) : c \in 0 .. board.width, r \in 0 .. board.height}

\* the cells a driver may name: every cell, and one column and one row out of range
PositionInputs ==
  {Position_new(c, r) : c \in 0 .. board.width, r \in 0 .. board.height}

HoldsGame(g) ==
  /\ board = g.board
  /\ current_player = g.current_player
  /\ move_history = g.move_history
  /\ is_over = g.is_over
  /\ outcome = g.outcome

\* Game::new(width, height) for a size of dims
InitNew(dims) ==
  /\ \E d \in dims : HoldsGame(Game_new(d[1], d[2]))
  /\ makes = 0 /\ unmakes = 0 /\ edits = 0
  /\ op = "new" /\ ret = TRUE
  /\ cloned = NoClone

\* Deserialize for Game: Game::standard() and one make_move per logged column
InitDeserialized ==
  /\ \E log \in Logs :
       LET r == replay(Game_standard, log, 1) IN
       r.ok /\ HoldsGame(r.game) /\ makes = Len(log)
  /\ unmakes = 0 /\ edits = 0
  /\ op = "deserialize" /\ ret = TRUE
  /\ cloned = NoClone

Init == InitNew(Dims) \/ InitDeserialized

\* game.make_move(&m)
MakeMove ==
  \E m \in MoveInputs :
    LET r == make_move(Game, m) IN
    /\ SetGame(r.game)
    /\ makes' = IF r.ret THEN makes + 1 ELSE makes
    /\ op' = "make_move"
    /\ ret' = r.ret
    /\ UNCHANGED <<unmakes, edits, cloned>>

\* game.unmake_move()
UnmakeMove ==
  /\ unmakes < MaxUnmakes
  /\ LET r == unmake_move(Game) IN
     /\ SetGame(r.game)
     /\ unmakes' = IF r.ret THEN unmakes + 1 ELSE unmakes
     /\ op' = "unmake_move"
     /\ ret' = r.ret
     /\ UNCHANGED <<makes, edits, cloned>>

\* game.set_piece(&pos, player)
SetPiece ==
  /\ edits < MaxEdits
  /\ \E pos \in PositionInputs, p \in Player \cup {None} :
       /\ SetGame(Game_set_piece(Game, pos, p))
       /\ edits' = edits + 1
       /\ op' = "set_piece"
       /\ ret' = TRUE
       /\ UNCHANGED <<makes, unmakes, cloned>>

\* games driven by make_move and unmake_move alone
Next == MakeMove \/ UnmakeMove

Spec == Init /\ [][Next]_vars

\* games that a driver also edits with set_piece
InitEdit == InitNew(EditDims)

NextEdit == MakeMove \/ UnmakeMove \/ SetPiece

SpecEdit == InitEdit /\ [][NextEdit]_vars

-----------------------------------------------------------------------------
(* A bare Board, owned by the caller: only the variable board changes (no  *)
(* Game is driven, so the Game fields and the driver's observations stay)  *)

Pieces(b) == Cardinality({i \in DOMAIN b.cells : b.cells[i] # None})

InitBoard ==
  /\ \E d \in BoardDims : board = Board_new(d[1], d[2])
  /\ current_player = Red /\ move_history = <<>>
  /\ is_over = FALSE /\ outcome = None
  /\ makes = 0 /\ unmakes = 0 /\ edits = 0
  /\ op = "new" /\ ret = TRUE
  /\ cloned = NoClone

\* board.drop_piece(col, player)
BoardDrop ==
  \E col \in 0 .. board.width, p \in Player :
    LET d == drop_piece(board, col, p) IN
    /\ Pieces(d.board) <= MaxPieces
    /\ board' = d.board
    /\ UNCHANGED <<current_player, move_history, is_over, outcome,
                   makes, unmakes, edits, op, ret, cloned>>

\* board.set_piece(&pos, player)
BoardSet ==
  \E pos \in PositionInputs, p \in Player \cup {None} :
    /\ Pieces(set_piece(board, pos, p)) <= MaxPieces
    /\ board' = set_piece(board, pos, p)
    /\ UNCHANGED <<current_player, move_history, is_over, outcome,
                   makes, unmakes, edits, op, ret, cloned>>

\* board.clear()
BoardClear ==
  /\ board' = clear(board)
  /\ UNCHANGED <<current_player, move_history, is_over, outcome,
                 makes, unmakes, edits, op, ret, cloned>>

NextBoard == BoardDrop \/ BoardSet \/ BoardClear

SpecBoard == InitBoard /\ [][NextBoard]_vars

-----------------------------------------------------------------------------
(* What the claims are stated with: the board read cell by cell            *)

Last(seq) == seq[Len(seq)]

Cell(b, c, r) == b.cells[r * b.width + c]

InRange(b, c, r) == c \in 0 .. (b.width - 1) /\ r \in 0 .. (b.height - 1)

NoEmptyCell(b) == \A i \in DOMAIN b.cells : b.cells[i] # None

WinOf(p) == IF p = Red THEN RedWin ELSE YellowWin

\* horizontal, vertical, rising diagonal, falling diagonal
Axes == {<<1, 0>>, <<0, 1>>, <<1, 1>>, <<1, -1>>}

\* some window of 4 consecutive cells along axis d holds (c, r) and only pieces of p
LineOfFour(b, c, r, p, d) ==
  \E k \in 0 .. 3 :
    \A i \in 0 .. 3 :
      /\ InRange(b, c + (i - k) * d[1], r + (i - k) * d[2])
      /\ Cell(b, c + (i - k) * d[1], r + (i - k) * d[2]) = p

HasLineThrough(b, c, r, p) == \E d \in Axes : LineOfFour(b, c, r, p, d)

LegalInputs(g) == {m \in MoveInputs : is_legal_move(g, m)}

-----------------------------------------------------------------------------
\* C1: in every state reached by make_move/unmake_move with is_over = FALSE,
\* for every legal move m, make_move(m) and then unmake_move() both return
\* true and give back exactly the game there was (board, current_player,
\* is_over, outcome, move_history); the same for two moves made and unmade.
C1_MakeUnmakeIdentity ==
  ~is_over =>
    \A m \in LegalInputs(Game) :
      LET a == make_move(Game, m)
          b == unmake_move(a.game)
      IN /\ a.ret /\ b.ret
         /\ b.game = Game
         /\ \A n \in LegalInputs(a.game) :
              LET a2 == make_move(a.game, n)
                  b2 == unmake_move(a2.game)
                  b1 == unmake_move(b2.game)
              IN a2.ret /\ b2.ret /\ b1.ret /\ b2.game = a.game /\ b1.game = Game

\* an undo has just given back a running game that has moves behind it and ahead
C1_Witness ==
  /\ op = "unmake_move" /\ ret /\ ~is_over
  /\ move_history # <<>>
  /\ LegalInputs(Game) # {}

\* C2: move_history.len() is the number of successful make_moves minus the
\* number of successful unmake_moves, and current_player is Red iff that
\* length is even, Yellow iff it is odd, in Concluded states too.
C2_HistoryCountsAndTurn ==
  /\ Len(move_history) = makes - unmakes
  /\ current_player = Red <=> Len(move_history) % 2 = 0
  /\ current_player = Yellow <=> Len(move_history) % 2 = 1

\* a game concluded by a make_move after some undo
C2_Witness ==
  /\ is_over /\ op = "make_move" /\ ret
  /\ unmakes > 0

\* C3: outcome is Some(_) iff is_over, whatever Game operations were called
\* (make_move, unmake_move, set_piece).
C3_OutcomeIffOver == (outcome # None) <=> is_over

\* a concluded game whose board was edited afterwards
C3_Witness == is_over /\ outcome \in GameOutcome /\ op = "set_piece"

\* C4: a successful make_move by player P concludes the game with outcome
\* "P wins" on that very move iff the piece just placed lies on a horizontal,
\* vertical or diagonal line of 4 of P's pieces; the outcome never names the
\* player who did not move.
C4_WinIffLineThroughPlacedPiece ==
  [][ (op' = "make_move" /\ ret') =>
        LET m == Last(move_history')
            P == current_player
        IN /\ Cell(board', m.col, m.row) = P
           /\ (is_over' /\ outcome' = WinOf(P))
                <=> HasLineThrough(board', m.col, m.row, P)
           /\ outcome' # WinOf(opposite(P))
    ]_vars

\* Yellow has just won on the standard board by a diagonal line and by no
\* horizontal or vertical one
C4_Witness ==
  /\ op = "make_move" /\ ret
  /\ outcome = YellowWin
  /\ board.width = STANDARD_COLS
  /\ LET m == Last(move_history) IN
     /\ LineOfFour(board, m.col, m.row, Yellow, <<1, 1>>)
          \/ LineOfFour(board, m.col, m.row, Yellow, <<1, -1>>)
     /\ ~LineOfFour(board, m.col, m.row, Yellow, <<1, 0>>)
     /\ ~LineOfFour(board, m.col, m.row, Yellow, <<0, 1>>)

\* C5: the outcome becomes Draw exactly on a make_move that fills the last
\* empty cell without completing a line of 4 for the mover: Draw is never
\* held while a cell is empty, nothing but a successful make_move sets it,
\* and a board-filling move that completes a line of 4 is the mover's win.
C5_DrawExactlyOnLastCell ==
  /\ [](outcome = Draw => NoEmptyCell(board))
  /\ [][ (outcome' = Draw /\ outcome # Draw) => (op' = "make_move" /\ ret') ]_vars
  /\ [][ (op' = "make_move" /\ ret') =>
           LET m == Last(move_history')
               P == current_player
               line == HasLineThrough(board', m.col, m.row, P)
           IN /\ outcome' = Draw <=> (NoEmptyCell(board') /\ ~line)
              /\ (NoEmptyCell(board') /\ line) => outcome' = WinOf(P)
       ]_vars

\* the 42nd move of a standard game has just drawn it
C5_Witness ==
  /\ op = "make_move" /\ ret
  /\ outcome = Draw
  /\ Len(move_history) = STANDARD_COLS * STANDARD_ROWS

\* C6: Concluded is terminal: while is_over, legal_moves() is empty,
\* is_legal_move(m) is false and make_move(m) returns false and changes
\* nothing, for every m; only a successful unmake_move takes the game out of
\* Concluded.
C6_ConcludedIsTerminal ==
  /\ [](is_over =>
          /\ legal_moves(Game) = <<>>
          /\ \A m \in MoveInputs :
               /\ ~is_legal_move(Game, m)
               /\ make_move(Game, m) = [game |-> Game, ret |-> FALSE])
  /\ [][ (is_over /\ op' = "make_move") => (~ret' /\ UNCHANGED gameVars) ]_vars
  /\ [][ (is_over /\ ~is_over') => (op' = "unmake_move" /\ ret') ]_vars

\* a make_move was just refused on a concluded game that has an empty cell
C6_Witness ==
  /\ is_over /\ op = "make_move" /\ ~ret
  /\ ~NoEmptyCell(board)

\* C7: make_move is atomic.  It returns false exactly when m is illegal (game
\* over, column out of range, column full, or m.row not the column height)
\* and then the game is unchanged; when it returns true the board has
\* changed, m is appended to the history and the turn has passed, in one step.
C7_MakeMoveAtomic ==
  \A m \in MoveInputs :
    LET r == make_move(Game, m)
        illegal == \/ is_over
                   \/ m.col >= board.width
                   \/ Cell(board, m.col, board.height - 1) # None
                   \/ m.row # column_height(board, m.col)
    IN /\ r.ret <=> ~illegal
       /\ ~r.ret => r.game = Game
       /\ r.ret => /\ r.game.board # board
                   /\ r.game.move_history = Append(move_history, m)
                   /\ r.game.current_player = opposite(current_player)

\* a make_move was just refused on a running game that holds a full column
C7_Witness ==
  /\ op = "make_move" /\ ~ret /\ ~is_over
  /\ \E c \in 0 .. (board.width - 1) : is_column_full(board, c)

Range(seq) == {seq[i] : i \in 1 .. Len(seq)}

\* C8: for a non-concluded game legal_moves() holds exactly one move for each
\* column c in [0, width) whose top cell is empty, namely
\* (c, column_height(c)); none for a full column; in ascending column order.
C8_LegalMovesOnePerOpenColumn ==
  ~is_over =>
    LET lm == legal_moves(Game) IN
    /\ \A c \in 0 .. (board.width - 1) :
         IF Cell(board, c, board.height - 1) = None
         THEN /\ Cardinality({i \in 1 .. Len(lm) : lm[i].col = c}) = 1
              /\ Move_new(c, column_height(board, c)) \in Range(lm)
         ELSE \A i \in 1 .. Len(lm) : lm[i].col # c
    /\ \A i \in 1 .. Len(lm) : lm[i].col \in 0 .. (board.width - 1)
    /\ \A i, j \in 1 .. Len(lm) : i < j => lm[i].col < lm[j].col

\* a running standard game after a move, with a full column, an empty column
\* and a column in between
C8_Witness ==
  /\ ~is_over /\ op = "make_move" /\ ret
  /\ board.width = STANDARD_COLS
  /\ \E c \in 0 .. (board.width - 1) : is_column_full(board, c)
  /\ \E c \in 0 .. (board.width - 1) :
       ~is_column_full(board, c) /\ column_height(board, c) > 0
  /\ Len(legal_moves(Game)) < board.width

\* C9: for every game state and every move m (any col, any row),
\* is_legal_move(m) iff m is an element of legal_moves(); a move whose row is
\* not the column's height, a move in a full column and a move with
\* col >= width are rejected.
C9_LegalIffListed ==
  \A m \in MoveInputs :
    /\ is_legal_move(Game, m) <=> m \in Range(legal_moves(Game))
    /\ (\/ m.col >= board.width
        \/ Cell(board, m.col, board.height - 1) # None
        \/ m.row # column_height(board, m.col)) => ~is_legal_move(Game, m)

\* a running game edited so that a piece floats above an empty cell of an
\* open column
C9_Witness ==
  /\ ~is_over /\ op = "set_piece"
  /\ \E c \in 0 .. (board.width - 1) :
       /\ ~is_column_full(board, c)
       /\ column_height(board, c) > 0
       /\ Cell(board, c, 0) = None

\* the longer side of the board: no run is longer
Side(b) == IF b.width >= b.height THEN b.width ELSE b.height

\* the offsets t for which every cell from (c, r) to (c, r) + t*d is p's:
\* the maximal run of p through (c, r) along axis d
RunOffsets(b, c, r, p, d) ==
  {t \in (1 - Side(b)) .. (Side(b) - 1) :
     \A u \in (IF t >= 0 THEN 0 .. t ELSE t .. 0) :
       /\ InRange(b, c + u * d[1], r + u * d[2])
       /\ Cell(b, c + u * d[1], r + u * d[2]) = p}

RunLength(b, c, r, p, d) == Cardinality(RunOffsets(b, c, r, p, d))

\* C10: for every board and every in-range pos holding a piece of p,
\* check_win(pos, p) iff some line of 4 consecutive cells along one of the
\* four axes holds pos and only pieces of p; an axis wins iff the run of p
\* through pos along it is at least 4 long, so a run of exactly 3 (ended by
\* an empty cell, an opponent piece or the edge) does not win.
C10_CheckWinIffLineOfFour ==
  \A c \in 0 .. (board.width - 1), r \in 0 .. (board.height - 1) :
    LET p == Cell(board, c, r)
        pos == Position_new(c, r)
    IN p \in Player =>
         /\ check_win(board, pos, p) <=> HasLineThrough(board, c, r, p)
         /\ \A d \in Axes :
              LET n == RunLength(board, c, r, p, d) IN
              /\ check_direction(board, pos, p, d[1], d[2]) <=> n >= 4
              /\ n = 3 => ~check_direction(board, pos, p, d[1], d[2])

\* a 4x4 board whose rising diagonal wins for Red, seen from an inner cell of it
C10_Witness ==
  /\ board.width = 4 /\ board.height = 4
  /\ Cell(board, 1, 1) = Red
  /\ check_win(board, Position_new(1, 1), Red)
  /\ LineOfFour(board, 1, 1, Red, <<1, 1>>)

-----------------------------------------------------------------------------
(* Boards that only gravity fills: a Game driven by make_move and          *)
(* unmake_move, or a bare Board its owner only drops into and clears       *)

\* Board::new(width, height) for a bare board
InitDropBoard ==
  /\ \E d \in BoardDims : board = Board_new(d[1], d[2])
  /\ current_player = Red /\ move_history = <<>>
  /\ is_over = FALSE /\ outcome = None
  /\ makes = 0 /\ unmakes = 0 /\ edits = 0
  /\ op = "Board::new" /\ ret = TRUE
  /\ cloned = NoClone

\* the variables hold a bare Board, no Game
BareBoard == op = "Board::new"

InitGravity == Init \/ InitDropBoard

NextGravity ==
  \/ ~BareBoard /\ MakeMove
  \/ ~BareBoard /\ UnmakeMove
  \/ BareBoard /\ BoardDrop
  \/ BareBoard /\ BoardClear

SpecGravity == InitGravity /\ [][NextGravity]_vars

\* C11: gravity.  In every board state reached through Board::drop_piece and
\* Board::clear, and through Game::make_move and Game::unmake_move, the
\* occupied cells of each column are exactly the rows 0 .. k-1 for some k:
\* no piece lies above an empty cell.
C11_Gravity ==
  \A c \in 0 .. (board.width - 1) :
    \E k \in 0 .. board.height :
      \A r \in 0 .. (board.height - 1) : Cell(board, c, r) # None <=> r < k

\* an undo has just lowered a column of a standard game that still holds a
\* piece, next to a full column
C11_Witness ==
  /\ op = "unmake_move" /\ ret
  /\ board.width = STANDARD_COLS
  /\ \E c \in 0 .. (board.width - 1) :
       /\ column_height(board, c) > 0
       /\ column_height(board, c) < board.height
  /\ \E c \in 0 .. (board.width - 1) : is_column_full(board, c)

\* C12: for every board state and either player, drop_piece(col, p) on a
\* column whose top cell is occupied returns None and leaves every cell
\* unchanged.
C12_DropOnFullColumnRejected ==
  \A col \in 0 .. (board.width - 1), p \in Player :
    Cell(board, col, board.height - 1) # None =>
      LET d == drop_piece(board, col, p) IN
      /\ ~d.some
      /\ d.board = board
      /\ \A i \in DOMAIN board.cells : d.board.cells[i] = board.cells[i]

\* a 4x4 board with a column whose top cell is occupied above an empty
\* cell, next to a column that holds pieces and is open
C12_Witness ==
  /\ board.width = 4 /\ board.height = 4
  /\ \E col \in 0 .. (board.width - 1) :
       /\ Cell(board, col, board.height - 1) # None
       /\ Cell(board, col, 0) = None
  /\ \E col \in 0 .. (board.width - 1) :
       /\ Cell(board, col, 0) # None
       /\ Cell(board, col, board.height - 1) = None

\* how far past the edge the out-of-range arguments go
MaxBeyond == 3

\* the columns from the first one past the right edge on
ColumnsBeyond(b) == b.width .. (b.width + MaxBeyond)

\* the positions with col >= width or row >= height
PositionsBeyond(b) ==
  {Position_new(c, r) : c \in 0 .. (b.width + MaxBeyond),
                        r \in 0 .. (b.height + MaxBeyond)}
    \ {Position_new(c, r) : c \in 0 .. (b.width - 1), r \in 0 .. (b.height - 1)}

\* C13: out-of-range arguments degrade without error and without mutation.
\* For every board and every position with col >= width or row >= height,
\* get_piece returns None and set_piece leaves the board unchanged; for
\* every col >= width, column_height returns 0, is_column_full returns true
\* and drop_piece returns None with the board unchanged.
C13_OutOfRangeDegrades ==
  /\ \A pos \in PositionsBeyond(board) :
       /\ get_piece(board, pos) = None
       /\ \A p \in Player \cup {None} : set_piece(board, pos, p) = board
  /\ \A col \in ColumnsBeyond(board) :
       /\ column_height(board, col) = 0
       /\ is_column_full(board, col)
       /\ \A p \in Player :
            LET d == drop_piece(board, col, p) IN ~d.some /\ d.board = board

\* a 4x4 board whose cell (0, 1) is occupied and whose cell (3, 0) is empty:
\* the position (4, 0), one column past the edge, has the index of (0, 1)
C13_Witness ==
  /\ board.width = 4 /\ board.height = 4
  /\ Cell(board, 0, 1) # None
  /\ Cell(board, 3, 0) = None
  /\ to_index(Position_new(4, 0), board.width) = index(board, 0, 1)

\* C14: unmake_move() called when move_history is empty returns false and
\* leaves board, current_player, is_over and outcome (and the empty history)
\* unchanged.
C14_UnmakeOnEmptyHistory ==
  /\ [](move_history = <<>> =>
          unmake_move(Game) = [game |-> Game, ret |-> FALSE])
  /\ [][ (move_history = <<>> /\ op' = "unmake_move") =>
           (~ret' /\ UNCHANGED gameVars) ]_vars

\* an undo was just refused on a game whose moves had all been undone
C14_Witness ==
  /\ op = "unmake_move" /\ ~ret
  /\ move_history = <<>>
  /\ makes > 0 /\ unmakes = makes

-----------------------------------------------------------------------------
(* Panics.  usize arithmetic and Vec indexing are checked: `self.height -   *)
(* 1` overflows when height is 0 (a panic in a debug build; in a release    *)
(* build the value wraps and indexes past the end of cells, which is empty  *)
(* when height is 0: a panic too), and cells[i] panics when i is not an     *)
(* index of cells.  X_panics tells whether a call of X panics.              *)

index_panics(b, i) == i \notin DOMAIN b.cells

\* the closure of is_board_full, run for every column of 0 .. width-1
is_board_full_panics(b) ==
  \E col \in 0 .. (b.width - 1) :
    \/ b.height = 0
    \/ index_panics(b, index(b, col, b.height - 1))

column_height_panics(b, col) ==
  IF col >= b.width THEN FALSE
  ELSE \E row \in 0 .. (b.height - 1) : index_panics(b, index(b, col, row))

is_column_full_panics(b, col) ==
  IF col >= b.width THEN FALSE
  ELSE \/ b.height = 0
       \/ index_panics(b, index(b, col, b.height - 1))

drop_piece_panics(b, col, player) ==
  IF col >= b.width THEN FALSE
  ELSE IF is_column_full_panics(b, col) THEN TRUE
  ELSE IF is_column_full(b, col) THEN FALSE
  ELSE \E row \in 0 .. (b.height - 1) : index_panics(b, index(b, col, row))

legal_moves_panics(g) ==
  IF g.is_over THEN FALSE
  ELSE \E col \in 0 .. (g.board.width - 1) :
         \/ is_column_full_panics(g.board, col)
         \/ column_height_panics(g.board, col)

is_legal_move_panics(g, move_) ==
  IF g.is_over THEN FALSE
  ELSE IF move_.col >= g.board.width THEN FALSE
  ELSE IF is_column_full_panics(g.board, move_.col) THEN TRUE
  ELSE IF is_column_full(g.board, move_.col) THEN FALSE
  ELSE column_height_panics(g.board, move_.col)

make_move_panics(g, move_) ==
  IF is_legal_move_panics(g, move_) THEN TRUE
  ELSE IF ~is_legal_move(g, move_) THEN FALSE
  ELSE IF drop_piece_panics(g.board, move_.col, g.current_player) THEN TRUE
  ELSE LET d == drop_piece(g.board, move_.col, g.current_player) IN
       /\ d.some
       /\ ~check_win(d.board, Position_new(move_.col, d.row), g.current_player)
       /\ is_board_full_panics(d.board)

\* the pop, and a set_piece that indexes only what is_valid admits
unmake_move_panics(g) ==
  IF Len(g.move_history) = 0 THEN FALSE
  ELSE LET last_move == g.move_history[Len(g.move_history)]
           pos == Position_new(last_move.col, last_move.row)
       IN /\ is_valid(pos, g.board.width, g.board.height)
          /\ index_panics(g.board, to_index(pos, g.board.width))

-----------------------------------------------------------------------------
(* Games of any size Game::new accepts, a width or a height of 0 included; *)
(* a call that panics ends the behaviour (op = "panic")                    *)

\* board sizes that Game::new accepts, with and without a side of 0
TotalDims == {<<0, 0>>, <<0, 2>>, <<1, 0>>, <<2, 0>>, <<2, 2>>, <<3, 1>>}

InitTotal == InitNew(TotalDims)

Panic ==
  /\ op' = "panic" /\ ret' = FALSE
  /\ UNCHANGED <<board, current_player, move_history, is_over, outcome,
                 makes, unmakes, edits, cloned>>

\* a call that reads the game and returns
Returns(name, value) ==
  /\ op' = name /\ ret' = value
  /\ UNCHANGED <<board, current_player, move_history, is_over, outcome,
                 makes, unmakes, edits, cloned>>

\* game.make_move(&m)
TotalMakeMove ==
  /\ op # "panic"
  /\ \E m \in MoveInputs :
       IF make_move_panics(Game, m) THEN Panic
       ELSE LET r == make_move(Game, m) IN
            /\ SetGame(r.game)
            /\ makes' = IF r.ret THEN makes + 1 ELSE makes
            /\ op' = "make_move"
            /\ ret' = r.ret
            /\ UNCHANGED <<unmakes, edits, cloned>>

\* game.unmake_move()
TotalUnmakeMove ==
  /\ op # "panic"
  /\ unmakes < MaxUnmakes
  /\ IF unmake_move_panics(Game) THEN Panic
     ELSE LET r == unmake_move(Game) IN
          /\ SetGame(r.game)
          /\ unmakes' = IF r.ret THEN unmakes + 1 ELSE unmakes
          /\ op' = "unmake_move"
          /\ ret' = r.ret
          /\ UNCHANGED <<makes, edits, cloned>>

\* game.legal_moves(); ret tells whether it returned any move
TotalLegalMoves ==
  /\ op # "panic"
  /\ IF legal_moves_panics(Game) THEN Panic
     ELSE Returns("legal_moves", legal_moves(Game) # <<>>)

\* game.is_legal_move(&m)
TotalIsLegalMove ==
  /\ op # "panic"
  /\ \E m \in MoveInputs :
       IF is_legal_move_panics(Game, m) THEN Panic
       ELSE Returns("is_legal_move", is_legal_move(Game, m))

\* game.board().is_board_full()
TotalIsBoardFull ==
  /\ op # "panic"
  /\ IF is_board_full_panics(board) THEN Panic
     ELSE Returns("is_board_full", is_board_full(board))

\* game.board().is_column_full(col)
TotalIsColumnFull ==
  /\ op # "panic"
  /\ \E col \in 0 .. board.width :
       IF is_column_full_panics(board, col) THEN Panic
       ELSE Returns("is_column_full", is_column_full(board, col))

\* game.board().column_height(col); ret tells whether the column holds a piece
TotalColumnHeight ==
  /\ op # "panic"
  /\ \E col \in 0 .. board.width :
       IF column_height_panics(board, col) THEN Panic
       ELSE Returns("column_height", column_height(board, col) > 0)

\* game.board().clone().drop_piece(col, player): a drop into a copy of the
\* board; ret tells whether it returned Some
TotalDropPiece ==
  /\ op # "panic"
  /\ \E col \in 0 .. board.width, p \in Player :
       IF drop_piece_panics(board, col, p) THEN Panic
       ELSE Returns("drop_piece", drop_piece(board, col, p).some)

NextTotal ==
  \/ TotalMakeMove \/ TotalUnmakeMove
  \/ TotalLegalMoves \/ TotalIsLegalMove
  \/ TotalIsBoardFull \/ TotalIsColumnFull \/ TotalColumnHeight
  \/ TotalDropPiece

SpecTotal == InitTotal /\ [][NextTotal]_vars

\* C15: every Board and Game operation is total.  For any dimensions
\* accepted by Board::new/Game::new (a width or a height of 0 included) and
\* any arguments, is_board_full, is_column_full, column_height, drop_piece,
\* legal_moves, is_legal_move, make_move and unmake_move return a value and
\* never panic.
C15_Total ==
  /\ op # "panic"
  /\ ~is_board_full_panics(board)
  /\ \A col \in 0 .. board.width :
       /\ ~is_column_full_panics(board, col)
       /\ ~column_height_panics(board, col)
       /\ \A p \in Player : ~drop_piece_panics(board, col, p)
  /\ ~legal_moves_panics(Game)
  /\ \A m \in MoveInputs :
       ~is_legal_move_panics(Game, m) /\ ~make_move_panics(Game, m)
  /\ ~unmake_move_panics(Game)

-----------------------------------------------------------------------------
(* serde_support.rs: the move log as text.  A string is a sequence of      *)
(* one-character strings; a Result is [ok |-> TRUE, ...] for Ok and        *)
(* [ok |-> FALSE, err |-> message] for Err.                                *)

DigitChars == <<"0", "1", "2", "3", "4", "5", "6", "7", "8", "9">>

DigitValue(ch) == CHOOSE d \in 0 .. 9 : DigitChars[d + 1] = ch

IsDigit(ch) == \E d \in 0 .. 9 : DigitChars[d + 1] = ch

\* what str::trim strips
Whitespace == {" ", "\t", "\n", "\r"}

\* usize::to_string: the decimal digits, most significant first
RECURSIVE to_string(_)
to_string(n) ==
  IF n < 10 THEN <<DigitChars[n + 1]>>
  ELSE to_string(n \div 10) \o <<DigitChars[(n % 10) + 1]>>

\* [String]::join(sep)
RECURSIVE join(_, _)
join(strs, sep) ==
  IF Len(strs) = 0 THEN <<>>
  ELSE IF Len(strs) = 1 THEN strs[1]
  ELSE strs[1] \o sep \o join(Tail(strs), sep)

\* str::split(sep) for a one-character separator: the pieces between the
\* separators, empty pieces included; one piece for a string without one
RECURSIVE split_from(_, _, _, _)
split_from(s, sep, start, i) ==
  IF i > Len(s) THEN <<SubSeq(s, start, Len(s))>>
  ELSE IF s[i] = sep
  THEN <<SubSeq(s, start, i - 1)>> \o split_from(s, sep, i + 1, i + 1)
  ELSE split_from(s, sep, start, i + 1)

split(s, sep) == split_from(s, sep, 1, 1)

RECURSIVE trim_start(_)
trim_start(s) ==
  IF Len(s) > 0 /\ s[1] \in Whitespace THEN trim_start(Tail(s)) ELSE s

RECURSIVE trim_end(_)
trim_end(s) ==
  IF Len(s) > 0 /\ s[Len(s)] \in Whitespace
  THEN trim_end(SubSeq(s, 1, Len(s) - 1))
  ELSE s

\* str::trim
trim(s) == trim_end(trim_start(s))

\* the digit loop of str::parse::<usize>: Err at the first character that
\* is no decimal digit
RECURSIVE parse_digits(_, _, _)
parse_digits(s, i, acc) ==
  IF i > Len(s) THEN [ok |-> TRUE, val |-> acc]
  ELSE IF ~IsDigit(s[i]) THEN [ok |-> FALSE, err |-> "InvalidDigit"]
  ELSE parse_digits(s, i + 1, acc * 10 + DigitValue(s[i]))

\* str::parse::<usize>: decimal digits after an optional '+'; the empty
\* string, a lone sign and a '-' are errors
parse_usize(s) ==
  IF Len(s) = 0 THEN [ok |-> FALSE, err |-> "Empty"]
  ELSE IF Len(s) = 1 /\ s[1] \in {"+", "-"}
  THEN [ok |-> FALSE, err |-> "InvalidDigit"]
  ELSE IF s[1] = "+" THEN parse_digits(s, 2, 0)
  ELSE parse_digits(s, 1, 0)

\* the text Serialize for Game hands to the serializer for these columns
Csv(cols) == join([i \in 1 .. Len(cols) |-> to_string(cols[i])], <<",">>)

\* Serialize for Game: the columns of the history, joined by commas
Game_serialize(g) ==
  Csv([i \in 1 .. Len(g.move_history) |-> g.move_history[i].col])

\* the loop of Deserialize for Game that skips an entry make_move refuses
RECURSIVE deserialize_skipping(_, _, _)
deserialize_skipping(g, entries, i) ==
  IF i > Len(entries) THEN [ok |-> TRUE, game |-> g]
  ELSE
    LET p == parse_usize(trim(entries[i])) IN
    IF ~p.ok THEN [ok |-> FALSE, err |-> "Invalid column number"]
    ELSE
      LET row == column_height(g.board, p.val)
          r == make_move(g, Move_new(p.val, row))
      IN deserialize_skipping(r.game, entries, i + 1)

\* the loop of Deserialize for Game over the entries i, i+1, ..
RECURSIVE deserialize_from(_, _, _)
deserialize_from(g, entries, i) ==
  IF i > Len(entries) THEN [ok |-> TRUE, game |-> g]
  ELSE
    LET p == parse_usize(trim(entries[i])) IN
    IF ~p.ok THEN [ok |-> FALSE, err |-> "Invalid column number"]
    ELSE
      LET row == column_height(g.board, p.val)
          r == make_move(g, Move_new(p.val, row))
      IN IF ~r.ret THEN [ok |-> FALSE, err |-> "Invalid move"]
         ELSE deserialize_from(r.game, entries, i + 1)

\* Deserialize for Game that splits the empty string like any other
Game_deserialize_without_empty_case(s) ==
  deserialize_from(Game_standard, split(s, ","), 1)

\* Deserialize for Game
Game_deserialize(s) ==
  IF s = <<>> THEN [ok |-> TRUE, game |-> Game_standard]
  ELSE deserialize_from(Game_standard, split(s, ","), 1)

\* Serialize for Move: the column as u64
Move_serialize(move_) == move_.col

\* Deserialize for Move: the column, with row 0 as a placeholder
Move_deserialize(col) ==
  IF col >= STANDARD_COLS THEN [ok |-> FALSE, err |-> "Column out of range"]
  ELSE [ok |-> TRUE, move |-> Move_new(col, 0)]

-----------------------------------------------------------------------------
(* Standard games that are also written to and read from move logs         *)

\* how many moves a game started in this specification holds
MaxPlies == 2

\* the one column a 41-ply log leaves open
OpenColumn(log) ==
  CHOOSE c \in 0 .. (STANDARD_COLS - 1) :
    Cardinality({i \in 1 .. Len(log) : log[i] = c}) < STANDARD_ROWS

\* the logs of Logs, each with its 42nd move
LoggedGames == {Append(log, OpenColumn(log)) : log \in Logs}

\* short logs: a column filled, a column overfilled, a win, a move after it
ShortLogs ==
  { <<3, 3, 4, 4>>, <<0, 0, 0, 0, 0, 0>>, <<0, 0, 0, 0, 0, 0, 0>>,
    <<0, 1, 0, 1, 0, 1, 0>>, <<0, 1, 0, 1, 0, 1, 0, 1>> }

\* texts handed to Deserialize for Game: short logs, and damaged texts
LogInputs ==
  {Csv(cols) : cols \in ShortLogs}
    \cup { <<>>, <<" ", "3", " ", ",", " ", "4">>, <<"+", "3">>,
           <<"x">>, <<"3", ",", "x">>, <<"3", ",", ",", "4">>, <<"3", ",">>,
           <<",", "3">>, <<" ">>, <<"7">>, <<"1", "0">>, <<"-", "1">>,
           <<"3", " ", "4">>, <<"3", ".", "0">> }

\* a game read from the log of a long game
InitLogged ==
  /\ \E log \in LoggedGames :
       LET r == Game_deserialize(Csv(log)) IN
       r.ok /\ HoldsGame(r.game) /\ makes = Len(log)
  /\ unmakes = 0 /\ edits = 0
  /\ op = "deserialize" /\ ret = TRUE
  /\ cloned = NoClone

InitSerde == InitNew({<<STANDARD_COLS, STANDARD_ROWS>>}) \/ InitLogged

\* game.make_move(&m), while the game is short
PlyMakeMove == Len(move_history) < MaxPlies /\ MakeMove

\* let game: Game = deserialize(s)?; on Err the driver keeps the game it has
Deserialize ==
  \E s \in LogInputs :
    LET r == Game_deserialize(s) IN
    /\ op' = "deserialize"
    /\ ret' = r.ok
    /\ IF r.ok
       THEN /\ SetGame(r.game)
            /\ makes' = Len(r.game.move_history)
            /\ unmakes' = 0
            /\ edits' = 0
            /\ UNCHANGED cloned
       ELSE UNCHANGED <<board, current_player, move_history, is_over, outcome,
                        makes, unmakes, edits, cloned>>

\* game = deserialize(serialize(&game))?
Roundtrip ==
  LET r == Game_deserialize(Game_serialize(Game)) IN
  /\ op' = "roundtrip"
  /\ ret' = r.ok
  /\ IF r.ok
     THEN /\ SetGame(r.game)
          /\ makes' = Len(r.game.move_history)
          /\ unmakes' = 0
          /\ edits' = 0
          /\ UNCHANGED cloned
     ELSE UNCHANGED <<board, current_player, move_history, is_over, outcome,
                      makes, unmakes, edits, cloned>>

\* let m: Move = deserialize(col)?; game.make_move(&m)
MakeDeserializedMove ==
  /\ Len(move_history) < MaxPlies
  /\ \E col \in 0 .. STANDARD_COLS :
       LET d == Move_deserialize(col) IN
       IF ~d.ok
       THEN /\ op' = "deserialize_move" /\ ret' = FALSE
            /\ UNCHANGED <<board, current_player, move_history, is_over,
                           outcome, makes, unmakes, edits, cloned>>
       ELSE LET r == make_move(Game, d.move) IN
            /\ SetGame(r.game)
            /\ makes' = IF r.ret THEN makes + 1 ELSE makes
            /\ op' = "make_deserialized_move"
            /\ ret' = r.ret
            /\ UNCHANGED <<unmakes, edits, cloned>>

NextSerde ==
  \/ PlyMakeMove \/ UnmakeMove
  \/ Deserialize \/ Roundtrip \/ MakeDeserializedMove

SpecSerde == InitSerde /\ [][NextSerde]_vars

\* the text "c1,c2,..,cn" read off character by character: the digit of the
\* i-th column at 2i-1 and a comma at 2i (the columns of a standard game
\* have one digit)
CommaJoined(cols, s) ==
  /\ Len(s) = (IF Len(cols) = 0 THEN 0 ELSE 2 * Len(cols) - 1)
  /\ \A i \in 1 .. Len(cols) : s[2 * i - 1] = DigitChars[cols[i] + 1]
  /\ \A i \in 1 .. (Len(cols) - 1) : s[2 * i] = ","

\* C16: serialization round-trip.  For every game reached from
\* Game::standard() by successful make_move/unmake_move calls, serialize(g)
\* is the comma-joined list of the history's column numbers (the empty
\* string for an empty history), and deserializing that string succeeds and
\* yields a game with the same move_history (columns and rows), board,
\* current_player, is_over and outcome.
C16_SerializeRoundTrip ==
  LET s == Game_serialize(Game)
      d == Game_deserialize(s)
  IN /\ CommaJoined([i \in 1 .. Len(move_history) |-> move_history[i].col], s)
     /\ move_history = <<>> => s = <<>>
     /\ d.ok
     /\ d.game.move_history = move_history
     /\ d.game.board = board
     /\ d.game.current_player = current_player
     /\ d.game.is_over = is_over
     /\ d.game.outcome = outcome

\* a standard game won on its 42nd move has just been written and read back
C16_Witness ==
  /\ op = "roundtrip" /\ ret
  /\ is_over /\ outcome \in {RedWin, YellowWin}
  /\ Len(move_history) = STANDARD_COLS * STANDARD_ROWS

\* the entries appended to a log: the seven columns, a padded column, and
\* entries that name no column of the standard board
AppendedEntries ==
  {to_string(c) : c \in 0 .. (STANDARD_COLS - 1)}
    \cup { <<" ", "2", " ">>, <<"7">>, <<"1", "0">>, <<"x">>, <<>> }

\* what may follow the appended entry: nothing, or one more column
Tails == {<<>>, <<",", "3">>}

\* the log s with the entry e appended
WithEntry(s, e) == IF s = <<>> THEN e ELSE s \o <<",">> \o e

\* e is a column number: decimal digits, maybe after a '+', maybe padded
\* with whitespace
IsColumnNumber(e) ==
  \E i, j \in 1 .. Len(e) :
    /\ i <= j
    /\ \A k \in 1 .. (i - 1) : e[k] \in Whitespace
    /\ \A k \in (j + 1) .. Len(e) : e[k] \in Whitespace
    /\ \A k \in i .. j : IsDigit(e[k]) \/ (k = i /\ k < j /\ e[k] = "+")

ColumnOf(e) == parse_usize(trim(e)).val

Columns(history) == [i \in 1 .. Len(history) |-> history[i].col]

\* C17: deserializing a move log returns an error, and exposes no partially
\* replayed Game, whenever some entry is not a parsable column number, is a
\* column >= 7, names a column that is full at that point of the replay, or
\* follows a move that already concluded the game; no entry is silently
\* skipped.  Stated on the log of the game held, with one entry appended
\* and maybe a further column after it.
C17_BadLogIsAnError ==
  LET log == Game_serialize(Game) IN
  \A e \in AppendedEntries, tail \in Tails :
    LET text == WithEntry(log, e) \o tail
        r == Game_deserialize(text)
        bad == \/ ~IsColumnNumber(e)
               \/ ColumnOf(e) >= STANDARD_COLS
               \/ Cell(board, ColumnOf(e), STANDARD_ROWS - 1) # None
               \/ is_over
    IN text # <<>> =>
         /\ bad => (~r.ok /\ DOMAIN r = {"ok", "err"})
         /\ r.ok =>
              Columns(r.game.move_history) =
                Columns(move_history) \o <<ColumnOf(e)>>
                  \o (IF tail = <<>> THEN <<>> ELSE <<3>>)

\* a damaged text was just refused while the game held has a full column
\* and an open one
C17_Witness ==
  /\ op = "deserialize" /\ ~ret
  /\ ~is_over
  /\ \E c \in 0 .. (board.width - 1) : is_column_full(board, c)
  /\ \E c \in 0 .. (board.width - 1) : ~is_column_full(board, c)

\* C18: a Move deserialized in isolation (column c < 7, row 0 as a
\* placeholder) and passed at once to make_move on a non-concluded standard
\* game whose column c is not full is applied: make_move returns true and
\* the piece lands at (c, column_height(c)), whatever the height of column c.
C18_DeserializedMoveIsApplied ==
  \A c \in 0 .. (STANDARD_COLS - 1) :
    (~is_over /\ Cell(board, c, STANDARD_ROWS - 1) = None) =>
      LET landing == column_height(board, c)
          d == Move_deserialize(Move_serialize(Move_new(c, landing)))
          r == make_move(Game, d.move)
      IN /\ d.ok
         /\ r.ret
         /\ Cell(r.game.board, c, landing) = current_player

-----------------------------------------------------------------------------
(* Two games: the one the variables hold and the one clone() returned.     *)
(* The driver calls make_move, unmake_move and set_piece on the game the   *)
(* variables hold and may turn to the other game at any time.              *)

\* board sizes of the games that are cloned
CloneDims == {<<1, 2>>}
\* how many set_piece calls each of the two games takes
MaxCloneEdits == 1

\* impl Clone for Game that starts the clone with an empty history
Game_clone_without_history(g) ==
  [board |-> [cells |-> g.board.cells,
              width |-> g.board.width, height |-> g.board.height],
   current_player |-> g.current_player,
   move_history |-> <<>>,
   is_over |-> g.is_over,
   outcome |-> g.outcome]

\* #[derive(Clone)] for Board: a new Vec with the same cells
Board_clone(b) ==
  [cells |-> [i \in DOMAIN b.cells |-> b.cells[i]],
   width |-> b.width, height |-> b.height]

\* impl Clone for Game
Game_clone(g) ==
  [board |-> Board_clone(g.board),
   current_player |-> g.current_player,
   move_history |-> [i \in 1 .. Len(g.move_history) |-> g.move_history[i]],
   is_over |-> g.is_over,
   outcome |-> g.outcome]

InitClone == InitNew(CloneDims)

\* the game the variables hold, with what the driver has counted for it
Held ==
  [some |-> TRUE, game |-> Game,
   makes |-> makes, unmakes |-> unmakes, edits |-> edits]

\* let h = game.clone(), replacing an earlier clone
Clone ==
  /\ cloned' = [some |-> TRUE, game |-> Game_clone(Game),
                makes |-> makes, unmakes |-> unmakes, edits |-> edits]
  /\ op' = "clone" /\ ret' = TRUE
  /\ UNCHANGED <<board, current_player, move_history, is_over, outcome,
                 makes, unmakes, edits>>

\* the driver turns to the other game: the variables hold it from now on
Turn ==
  /\ cloned.some
  /\ SetGame(cloned.game)
  /\ makes' = cloned.makes /\ unmakes' = cloned.unmakes /\ edits' = cloned.edits
  /\ cloned' = Held
  /\ op' = "turn" /\ ret' = TRUE

\* game.set_piece(&pos, player), a few times for each of the two games
CloneSetPiece == edits < MaxCloneEdits /\ SetPiece

NextClone == MakeMove \/ UnmakeMove \/ CloneSetPiece \/ Clone \/ Turn

SpecClone == InitClone /\ [][NextClone]_vars

\* C19: clone independence.  After h = g.clone(), h has the same board,
\* turn, history, is_over and outcome as g, and any sequence of make_move /
\* unmake_move / set_piece calls applied to one of the two leaves every
\* field of the other unchanged.
C19_CloneIndependence ==
  /\ [][ op' = "clone" =>
           /\ cloned'.game.board = board
           /\ cloned'.game.current_player = current_player
           /\ cloned'.game.move_history = move_history
           /\ cloned'.game.is_over = is_over
           /\ cloned'.game.outcome = outcome
           /\ UNCHANGED gameVars ]_vars
  /\ [][ op' \in {"make_move", "unmake_move", "set_piece"} =>
           cloned' = cloned ]_vars
  /\ [][ op' = "turn" => (cloned'.game = Game /\ Game' = cloned.game) ]_vars

\* the clone was played on and edited, the driver is back at the original,
\* which has been played on since: the two games differ in board and history
C19_Witness ==
  /\ cloned.some
  /\ op \in {"make_move", "unmake_move", "set_piece"}
  /\ cloned.edits > 0 /\ cloned.makes > makes
  /\ makes > 0
  /\ cloned.game.board # board
  /\ cloned.game.move_history # move_history

-----------------------------------------------------------------------------
(* outcome.rs: the rewards.  The f32 values 1.0, -1.0 and 0.0 are the      *)
(* integers 1, -1 and 0 (0.0 and -0.0 compare equal).                      *)

\* #[repr(i8)] enum Player: the discriminant, `player as i8`
Player_as_i8(p) == IF p = Red THEN 1 ELSE -1

winner(o) ==
  CASE o = RedWin -> Red
    [] o = YellowWin -> Yellow
    [] o = Draw -> None

encode_winner_absolute(o) ==
  CASE o = RedWin -> 1
    [] o = YellowWin -> -1
    [] o = Draw -> 0

\* encode_winner_from_perspective that takes Red's view for either player
encode_winner_from_perspective_of_red(o, perspective) ==
  CASE o = RedWin -> 1
    [] o = YellowWin -> -1
    [] o = Draw -> 0

encode_winner_from_perspective(o, perspective) ==
  CASE perspective = Red ->
         (CASE o = RedWin -> 1
            [] o = YellowWin -> -1
            [] o = Draw -> 0)
    [] perspective = Yellow ->
         (CASE o = RedWin -> -1
            [] o = YellowWin -> 1
            [] o = Draw -> 0)

\* C20: reward encoding.  encode_winner_absolute is +1 for RedWin, -1 for
\* YellowWin and 0 for Draw; encode_winner_from_perspective(o, Red) equals
\* encode_winner_absolute(o) and encode_winner_from_perspective(o, Yellow)
\* equals its negation: the absolute encoding times the perspective
\* player's numeric encoding (+1 Red, -1 Yellow).  For every outcome, and
\* for the outcome of every concluded game.
C20_RewardEncoding ==
  /\ \A o \in GameOutcome :
       /\ encode_winner_absolute(o) =
            (IF o = RedWin THEN 1 ELSE IF o = YellowWin THEN -1 ELSE 0)
       /\ encode_winner_from_perspective(o, Red) = encode_winner_absolute(o)
       /\ encode_winner_from_perspective(o, Yellow) = -encode_winner_absolute(o)
       /\ \A p \in Player :
            encode_winner_from_perspective(o, p) =
              encode_winner_absolute(o) * Player_as_i8(p)
  /\ is_over =>
       /\ outcome \in GameOutcome
       /\ \A p \in Player :
            /\ encode_winner_from_perspective(outcome, p) =
                 encode_winner_absolute(outcome) * Player_as_i8(p)
            /\ winner(outcome) = p =>
                 encode_winner_from_perspective(outcome, p) = 1
            /\ winner(outcome) = opposite(p) =>
                 encode_winner_from_perspective(outcome, p) = -1
       /\ outcome = Draw =>
            /\ encode_winner_absolute(outcome) = 0
            /\ \A p \in Player : encode_winner_from_perspective(outcome, p) = 0

\* Yellow has just won: the absolute reward is -1, the reward seen by Yellow +1
C20_Witness ==
  /\ is_over /\ op = "make_move" /\ ret
  /\ winner(outcome) = Yellow
  /\ encode_winner_absolute(outcome) = -1
  /\ encode_winner_from_perspective(outcome, Yellow) = 1

-----------------------------------------------------------------------------
\* C21 as stated: the outcome is immutable once computed, set at most once
\* over any sequence of operations on one Game, and only in the step in
\* which is_over becomes true.
C21_OutcomeSetAtMostOnce ==
  /\ [][ outcome # None => outcome' = outcome ]_vars
  /\ [][ outcome' # outcome => (~is_over /\ is_over') ]_vars

\* C21: the outcome changes in two kinds of step only.  A successful
\* make_move on a running game sets it, from None to the mover's win or to
\* Draw, in the very step in which is_over becomes true, and every step in
\* which is_over becomes true sets it; a successful unmake_move on a
\* concluded game resets it to None together with is_over.  It never goes
\* from one outcome to another in one step, and between two undos it is set
\* at most once; after an undo a later make_move sets it again.
C21_OutcomeSetOncePerConclusion ==
  /\ [][ (outcome = None /\ outcome' # None) =>
           /\ op' = "make_move" /\ ret'
           /\ ~is_over /\ is_over'
           /\ outcome' \in {WinOf(current_player), Draw} ]_vars
  /\ [][ (~is_over /\ is_over') => (outcome = None /\ outcome' \in GameOutcome) ]_vars
  /\ [][ (outcome # None /\ outcome' # outcome) =>
           /\ op' = "unmake_move" /\ ret'
           /\ is_over /\ ~is_over'
           /\ outcome' = None ]_vars
  /\ [][ (outcome # None /\ op' = "make_move") => (~ret' /\ outcome' = outcome) ]_vars

\* the 42nd move of a logged standard game concluded it and has just been
\* undone: the outcome that was computed is None again
C21_Witness ==
  /\ op = "unmake_move" /\ ret
  /\ outcome = None /\ ~is_over
  /\ board.width = STANDARD_COLS
  /\ Len(move_history) = STANDARD_COLS * STANDARD_ROWS - 1
  /\ makes = STANDARD_COLS * STANDARD_ROWS /\ unmakes = 1

-----------------------------------------------------------------------------
(* The whole public interface of Game (game.rs:31-156): the two movers,    *)
(* set_piece, and the calls that take &self                                *)

\* board sizes of the games driven through the whole interface
ApiDims == {<<3, 1>>, <<1, 3>>}

InitApi == InitNew(ApiDims)

\* the accessors: each returns a field, or a size of the board
AccessorNames ==
  {"width", "height", "board", "turn", "is_over", "outcome", "move_history"}

\* game.width(), game.height(), game.board(), game.turn(), game.is_over(),
\* game.outcome(), game.move_history()
Accessor == \E name \in AccessorNames : Returns(name, TRUE)

\* game.get_piece(&pos); ret tells whether it returned Some
GetPiece ==
  \E pos \in PositionInputs :
    Returns("get_piece", get_piece(board, pos) # None)

\* game.legal_moves(); ret tells whether it returned any move
LegalMoves == Returns("legal_moves", legal_moves(Game) # <<>>)

\* game.is_legal_move(&m)
IsLegalMove ==
  \E m \in MoveInputs : Returns("is_legal_move", is_legal_move(Game, m))

\* let h = game.clone(), compared with the game field by field and dropped
CloneDropped == Returns("clone", Game_clone(Game) = Game)

NextApi ==
  \/ MakeMove \/ UnmakeMove \/ SetPiece
  \/ Accessor \/ GetPiece \/ LegalMoves \/ IsLegalMove \/ CloneDropped

SpecApi == InitApi /\ [][NextApi]_vars

\* the calls of the interface that take &self
ReadingCalls == AccessorNames \cup {"get_piece", "legal_moves", "is_legal_move", "clone"}

\* the cells in which two boards of one size differ
CellsChanged(b1, b2) == {i \in DOMAIN b1.cells : b1.cells[i] # b2.cells[i]}

\* C22 as stated: a Game is mutated only through make_move and unmake_move;
\* every other public operation (accessors, legal_moves, is_legal_move,
\* clone, set_piece) leaves board, move_history, current_player, is_over and
\* outcome unchanged, so the number of pieces on the board always equals
\* move_history.len().
C22_OnlyMakeUnmakeMutate ==
  /\ [][ op' \notin {"make_move", "unmake_move"} => UNCHANGED gameVars ]_vars
  /\ [](Pieces(board) = Len(move_history))

\* C22: a Game is mutated only through make_move, unmake_move and
\* set_piece.  The accessors, get_piece, legal_moves, is_legal_move and clone
\* leave board, move_history, current_player, is_over and outcome unchanged;
\* set_piece changes at most one cell of the board, the one it names, and
\* leaves the size of the board, move_history, current_player, is_over and
\* outcome unchanged; as long as set_piece has not been called, the number
\* of pieces on the board equals move_history.len().
C22_FrameOfGameOperations ==
  /\ [][ op' \in ReadingCalls => UNCHANGED gameVars ]_vars
  /\ [][ op' = "set_piece" =>
           /\ UNCHANGED <<current_player, move_history, is_over, outcome>>
           /\ board'.width = board.width /\ board'.height = board.height
           /\ DOMAIN board'.cells = DOMAIN board.cells
           /\ Cardinality(CellsChanged(board, board')) <= 1 ]_vars
  /\ [][ UNCHANGED gameVars \/ op' \in {"make_move", "unmake_move", "set_piece"} ]_vars
  /\ [](edits = 0 => Pieces(board) = Len(move_history))

\* legal_moves() was just called on a game that was played and edited: the
\* board holds more or fewer pieces than the history has moves
C22_Witness ==
  /\ op = "legal_moves"
  /\ edits > 0 /\ makes > 0
  /\ Pieces(board) # Len(move_history)

-----------------------------------------------------------------------------
\* the number of contiguous occupied cells of column c counted upward from
\* row 0: the index of the lowest empty cell, or height if there is none
ContiguousFromBottom(b, c) ==
  Cardinality({r \in 0 .. (b.height - 1) :
                 \A q \in 0 .. r : Cell(b, c, q) # None})

\* C23: for every board state constructible through drop_piece, set_piece
\* and clear, and every col < width, column_height(col) equals the number of
\* contiguous occupied cells of that column counted upward from row 0 (the
\* index of the lowest empty cell, or height if none).
C23_ColumnHeightCountsFromBottom ==
  \A col \in 0 .. (board.width - 1) :
    column_height(board, col) = ContiguousFromBottom(board, col)

-----------------------------------------------------------------------------
\* C24: for any Game with is_over = false, legal_moves() is empty iff
\* board.is_board_full() is true (both calls return); hence in every state
\* reached by make_move/unmake_move on a board with width >= 1 and
\* height >= 1, a game that is not concluded has at least one legal move.
C24_NoLegalMoveIffBoardFull ==
  /\ ~is_over =>
       /\ ~legal_moves_panics(Game)
       /\ ~is_board_full_panics(board)
       /\ (legal_moves(Game) = <<>>) <=> is_board_full(board)
  /\ (board.width >= 1 /\ board.height >= 1 /\ ~is_over) =>
       legal_moves(Game) # <<>>

-----------------------------------------------------------------------------
(* Games of any size driven by make_move and unmake_move: the games of     *)
(* Spec, and games on boards without cells                                 *)

\* board sizes with a side of 0
ZeroDims == {<<0, 0>>, <<0, 2>>, <<1, 0>>}

InitAnySize == Init \/ InitNew(ZeroDims)

NextAnySize == TotalMakeMove \/ TotalUnmakeMove

SpecAnySize == InitAnySize /\ [][NextAnySize]_vars

\* some 4 consecutive cells along one of the four axes hold pieces of one player
HasRunOfFour(b) ==
  \E c \in 0 .. (b.width - 1), r \in 0 .. (b.height - 1) :
    /\ Cell(b, c, r) # None
    /\ HasLineThrough(b, c, r, Cell(b, c, r))

\* a state of a finished game: a run of 4 somewhere, or no empty cell
Terminal(b) == HasRunOfFour(b) \/ NoEmptyCell(b)

\* C25 as stated: in every state reached by make_move/unmake_move, is_over
\* is true iff the whole board holds a run of 4 pieces of one player on some
\* axis or has no empty cell; the state a successful unmake_move produces is
\* never terminal.
C25_OverIffTerminalBoard ==
  /\ is_over <=> Terminal(board)
  /\ (op = "unmake_move" /\ ret) => (~is_over /\ ~Terminal(board))

\* C25: on a board with width >= 1 and height >= 1, in every state reached
\* by make_move/unmake_move, is_over is true iff the whole board holds a run
\* of 4 pieces of one player on some axis or has no empty cell; the state a
\* successful unmake_move produces is never terminal (it has an empty cell
\* and no run of 4 anywhere, though unmake_move does not rescan the board).
C25_OverIffTerminalBoardWithCells ==
  (board.width >= 1 /\ board.height >= 1) =>
    /\ is_over <=> Terminal(board)
    /\ (op = "unmake_move" /\ ret) => (~is_over /\ ~Terminal(board))

\* the 42nd move of a logged standard game was made and has just been
\* undone, and it is a winning move: made again, it wins
C25_Witness ==
  /\ op = "unmake_move" /\ ret
  /\ board.width = STANDARD_COLS
  /\ makes = STANDARD_COLS * STANDARD_ROWS /\ unmakes = 1
  /\ \E m \in LegalInputs(Game) :
       make_move(Game, m).game.outcome \in {RedWin, YellowWin}

-----------------------------------------------------------------------------
\* C26: in states reached by make_move/unmake_move, a successful
\* make_move(m) by player P changes exactly one board cell, (m.col, m.row),
\* from empty to P and appends m to move_history; all other cells are
\* unchanged and the row recorded in the history is the row where the piece
\* landed.
C26_MakeMoveChangesOneCell ==
  \A m \in MoveInputs :
    LET r == make_move(Game, m)
        P == current_player
        landed == drop_piece(board, m.col, P)
    IN r.ret =>
         /\ InRange(board, m.col, m.row)
         /\ Cell(board, m.col, m.row) = None
         /\ Cell(r.game.board, m.col, m.row) = P
         /\ CellsChanged(board, r.game.board) = {index(board, m.col, m.row)}
         /\ r.game.board.width = board.width
         /\ r.game.board.height = board.height
         /\ DOMAIN r.game.board.cells = DOMAIN board.cells
         /\ r.game.move_history = Append(move_history, m)
         /\ landed.some /\ landed.row = m.row
         /\ Last(r.game.move_history).row = landed.row

\* a move has just been made on top of two pieces of a standard game, after
\* an undo: the cell it names holds the mover's piece
C26_Witness ==
  /\ op = "make_move" /\ ret
  /\ unmakes > 0
  /\ board.width = STANDARD_COLS
  /\ Last(move_history).row >= 2
  /\ Cell(board, Last(move_history).col, Last(move_history).row)
       = opposite(current_player)

-----------------------------------------------------------------------------
\* the gravity invariant of a board: in each column the occupied cells are
\* the rows below some k
Gravity(b) ==
  \A c \in 0 .. (b.width - 1) :
    \A r \in 1 .. (b.height - 1) : Cell(b, c, r) # None => Cell(b, c, r - 1) # None

\* the lowest empty row of a column that has one
LowestEmptyRow(b, c) ==
  CHOOSE r \in 0 .. (b.height - 1) :
    /\ Cell(b, c, r) = None
    /\ \A q \in 0 .. (r - 1) : Cell(b, c, q) # None

\* C27: for every board and col < width whose top cell is empty,
\* drop_piece(col, p) returns Some(r) where r is the lowest empty row of col,
\* sets cell (col, r) to p and changes no other cell; on boards that satisfy
\* the gravity invariant r equals column_height(col) before the call and
\* column_height(col) is r + 1 afterwards.
C27_DropFillsLowestEmptyRow ==
  \A col \in 0 .. (board.width - 1), p \in Player :
    Cell(board, col, board.height - 1) = None =>
      LET d == drop_piece(board, col, p)
          r == LowestEmptyRow(board, col)
      IN /\ d.some /\ d.row = r
         /\ Cell(d.board, col, r) = p
         /\ CellsChanged(board, d.board) = {index(board, col, r)}
         /\ DOMAIN d.board.cells = DOMAIN board.cells
         /\ d.board.width = board.width /\ d.board.height = board.height
         /\ Gravity(board) =>
              /\ column_height(board, col) = r
              /\ column_height(d.board, col) = r + 1
              /\ Gravity(d.board)

\* a 4x4 board with a column that holds a piece above an empty cell above a
\* piece (a drop into it fills the gap), next to a column that obeys gravity
C27_Witness ==
  /\ board.width = 4 /\ board.height = 4
  /\ \E col \in 0 .. (board.width - 1) :
       /\ Cell(board, col, 0) # None
       /\ Cell(board, col, 1) = None
       /\ Cell(board, col, 2) # None
       /\ Cell(board, col, 3) = None
  /\ \E col \in 0 .. (board.width - 1) :
       /\ Cell(board, col, 0) # None
       /\ \A r \in 1 .. 3 : Cell(board, col, r) = None

-----------------------------------------------------------------------------
\* how many cells of b hold a piece of p
Count(b, p) == Cardinality({i \in DOMAIN b.cells : b.cells[i] = p})

\* the entries of the history that Red made: the 1st, 3rd, .. (the indices
\* 0, 2, .. of the Vec), and those that Yellow made
RedEntries == {i \in 1 .. Len(move_history) : i % 2 = 1}
YellowEntries == {i \in 1 .. Len(move_history) : i % 2 = 0}

\* C28: board/history consistency.  In every state reached by
\* make_move/unmake_move the history entries are pairwise distinct cells; a
\* cell (c, r) holds Red iff some even-indexed entry of the history (from 0)
\* is (c, r), holds Yellow iff some odd-indexed entry is (c, r), and is empty
\* otherwise; so the number of Red pieces minus the number of Yellow pieces
\* is 0 or 1.
C28_BoardMatchesHistory ==
  /\ \A i, j \in 1 .. Len(move_history) :
       i # j => move_history[i] # move_history[j]
  /\ \A i \in 1 .. Len(move_history) :
       InRange(board, move_history[i].col, move_history[i].row)
  /\ \A c \in 0 .. (board.width - 1), r \in 0 .. (board.height - 1) :
       /\ Cell(board, c, r) = Red
            <=> \E i \in RedEntries : move_history[i] = Move_new(c, r)
       /\ Cell(board, c, r) = Yellow
            <=> \E i \in YellowEntries : move_history[i] = Move_new(c, r)
       /\ Cell(board, c, r) = None
            <=> \A i \in 1 .. Len(move_history) : move_history[i] # Move_new(c, r)
  /\ Count(board, Red) - Count(board, Yellow) \in {0, 1}
  /\ Count(board, Red) = Cardinality(RedEntries)
  /\ Count(board, Yellow) = Cardinality(YellowEntries)

\* moves of a standard game were undone and a move was made since: Red has
\* one piece more than Yellow
C28_Witness ==
  /\ op = "make_move" /\ ret
  /\ board.width = STANDARD_COLS
  /\ unmakes >= 2
  /\ Count(board, Red) = Count(board, Yellow) + 1
  /\ Count(board, Red) + Count(board, Yellow) < STANDARD_COLS * STANDARD_ROWS - 1

-----------------------------------------------------------------------------
\* C29: in every state reached by make_move/unmake_move the outcome is
\* consistent with the move count: RedWin implies move_history.len() is odd,
\* YellowWin implies it is even and positive, Draw implies it is
\* width * height; in a win state current_player is the loser.
C29_OutcomeMatchesMoveCount ==
  /\ outcome = RedWin =>
       /\ Len(move_history) % 2 = 1
       /\ current_player = Yellow
  /\ outcome = YellowWin =>
       /\ Len(move_history) % 2 = 0
       /\ Len(move_history) > 0
       /\ current_player = Red
  /\ outcome = Draw => Len(move_history) = board.width * board.height
  /\ \A p \in Player : outcome = WinOf(p) => current_player = opposite(p)

\* Red has just won a game with cells to spare, after an undo
C29_Witness ==
  /\ op = "make_move" /\ ret
  /\ outcome = RedWin
  /\ unmakes > 0
  /\ Len(move_history) < board.width * board.height
  /\ current_player = Yellow

-----------------------------------------------------------------------------
(* Games whose driver keeps playing: whenever a legal move exists, a legal *)
(* move is eventually made (undos and refused moves may come in between)   *)

\* board sizes of the games played on
PlayDims == {<<2, 2>>, <<3, 1>>, <<2, 3>>}

InitPlayOn == InitNew(PlayDims) \/ InitDeserialized

\* game.make_move(&m) for a legal m
PlayOn == MakeMove /\ ret'

SpecPlayOn == InitPlayOn /\ [][Next]_vars /\ WF_vars(PlayOn)

\* C30: bounded play.  In every state reached by make_move/unmake_move,
\* move_history.len() <= width * height; a successful make_move makes the
\* history one longer, a game that is not concluded has a legal move, and a
\* game played without undo is concluded by the time width * height
\* successful make_moves were made: a run that keeps applying legal moves
\* reaches a Concluded state (width, height >= 1).
C30_BoundedPlay ==
  /\ [](Len(move_history) <= board.width * board.height)
  /\ []((unmakes = 0 /\ ~is_over) => makes < board.width * board.height)
  /\ [](~is_over => LegalInputs(Game) # {})
  /\ [](Len(move_history) = board.width * board.height => is_over)
  /\ [][ (op' = "make_move" /\ ret') =>
           Len(move_history') = Len(move_history) + 1 ]_vars
  /\ (~is_over ~> is_over)

\* a fresh 2x3 game was played without undo to its last cell and is over
C30_Witness ==
  /\ op = "make_move" /\ ret
  /\ is_over
  /\ board.width = 2 /\ board.height = 3
  /\ unmakes = 0
  /\ makes = board.width * board.height
  /\ Len(move_history) = board.width * board.height

-----------------------------------------------------------------------------
\* C31: redo identity.  In every state reached by make_move/unmake_move
\* with a non-empty history whose last entry is m, unmake_move() followed by
\* make_move(m) returns true both times and restores exactly the same board,
\* move_history, current_player, is_over and outcome, also when the state
\* was Concluded: the same outcome is computed again.
C31_RedoIdentity ==
  move_history # <<>> =>
    LET m == Last(move_history)
        u == unmake_move(Game)
        r == make_move(u.game, m)
    IN /\ u.ret /\ r.ret
       /\ ~u.game.is_over /\ u.game.outcome = None
       /\ r.game.board = board
       /\ r.game.move_history = move_history
       /\ r.game.current_player = current_player
       /\ r.game.is_over = is_over
       /\ r.game.outcome = outcome

\* the winning 42nd move of a logged standard game was made, undone and
\* made again: the game is won as before
C31_Witness ==
  /\ op = "make_move" /\ ret
  /\ is_over /\ outcome \in {RedWin, YellowWin}
  /\ board.width = STANDARD_COLS
  /\ Len(move_history) = STANDARD_COLS * STANDARD_ROWS
  /\ makes = STANDARD_COLS * STANDARD_ROWS + 1 /\ unmakes = 1

====
